---- MODULE Spec2Model ----
(***************************************************************************)
(* Model of dhcpcd's privilege-separated network proxy, privsep-inet.c.    *)
(*                                                                         *)
(* Three kinds of process appear:                                          *)
(*   - the process that owns the process registry and runs ps_inet_cmd     *)
(*     (pid 0 in the model);                                               *)
(*   - the per-address workers it forks from ps_inet_cmd (pid 1, 2, ...);  *)
(*   - the network proxy started by ps_inet_start (pid -1; variables sup   *)
(*     and proxy).                                                         *)
(* A fork duplicates the caller's memory: a worker carries its own copy    *)
(* of the registry, and what it does to that copy is invisible to its      *)
(* parent.                                                                 *)
(***************************************************************************)
EXTENDS Integers, Sequences, FiniteSets, TLC

VARIABLES
    build,      \* the platform the program was compiled for
    ctx,        \* struct dhcpcd_ctx of the registry process: default sockets
    procs,      \* ctx->ps_processes of the registry process (a TAILQ)
    workers,    \* the forked worker processes, indexed by pid
    sup,        \* the network proxy process of ps_inet_start: its channel
    proxy,      \* the network proxy process: what ps_inet_start made of it
    aborted,    \* the registry process died on a failed assertion
    last        \* the call made by the last step, with what it returned

vars == <<build, ctx, procs, workers, sup, proxy, aborted, last>>

-----------------------------------------------------------------------------
(* Bounds of the model.                                                    *)

\* The number of workers forked over a run.
MaxProcs == 2

\* The interface indexes the engine's requests name.
MaxIfindex == 3

\* The number of default sockets whose block the system refuses something
\* in, where the network proxy starts next to the workers.
MaxRefused == 1

-----------------------------------------------------------------------------
(* Command words (privsep.h): a protocol tag in the low bits, START in bit *)
(* 14, STOP in bit 15.                                                     *)

PS_BOOTP == 1
PS_ND == 2
PS_DHCP6 == 3
PS_START == 16384
PS_STOP == 32768

\* A tag no case of any switch of privsep-inet.c names.
PS_OTHER == PS_DHCP6 + 1

Tags == {PS_BOOTP, PS_ND, PS_DHCP6, PS_OTHER}

HasStart(ps_cmd) == (ps_cmd \div PS_START) % 2 = 1
HasStop(ps_cmd) == (ps_cmd \div PS_STOP) % 2 = 1

\* ps_cmd & ~(PS_START | PS_STOP), on a 16-bit word.
StripFlags(ps_cmd) == ps_cmd % PS_START

CmdWords ==
    { t + s * PS_START + p * PS_STOP : t \in Tags, s \in {0, 1}, p \in {0, 1} }

-----------------------------------------------------------------------------
(* Builds.  HAVE_CAPSICUM, HAVE_PLEDGE and __sun select code; INET, INET6  *)
(* and DHCP6 are taken as defined.                                         *)

Builds == {"plain", "capsicum", "pledge", "sun"}

HAVE_CAPSICUM == build = "capsicum"
HAVE_PLEDGE == build = "pledge"
SUN == build = "sun"

-----------------------------------------------------------------------------
(* Identity keys (struct ps_id) and control message headers.               *)

Addrs == {"10.0.0.5", "10.0.0.6"}

Keys == [psi_cmd : {PS_BOOTP}, psi_ifindex : {1}, psi_addr : Addrs]

\* The key of a message sent with no identity (ps_sendmsg, ps_recvmsg).
ZeroId == [psi_cmd |-> 0, psi_ifindex |-> 0, psi_addr |-> "0"]

IsData(ps_cmd) == ~HasStart(ps_cmd) /\ ~HasStop(ps_cmd)

\* The headers the registry process is given: any command word; a START or
\* STOP names an address, a datagram to send may name none.
Headers ==
    { h \in [ps_cmd : CmdWords, ps_id : Keys \cup {ZeroId}] :
        h.ps_id = ZeroId => IsData(h.ps_cmd) }

-----------------------------------------------------------------------------
(* The process registry (privsep.c): a list of struct ps_process.  A       *)
(* record is named by its index in the list; 0 stands for NULL.            *)

\* ps_findprocess: the first record whose key equals id, or NULL.
ps_findprocess(ps, id) ==
    IF \E i \in DOMAIN ps : ps[i].psp_id = id
    THEN CHOOSE i \in DOMAIN ps :
            /\ ps[i].psp_id = id
            /\ \A j \in DOMAIN ps : ps[j].psp_id = id => i <= j
    ELSE 0

\* ps_newprocess: a new record for id at the tail of the list; its pid,
\* channel and socket are not set yet.  The caller decides whether a record
\* for id may be added: ps_inet_cmd asks ps_findprocess first.
ps_newprocess(ps, id) ==
    Append(ps, [psp_id |-> id, psp_pid |-> 0, psp_fd |-> -1, psp_work_fd |-> -1])

\* ps_freeprocess: the record leaves the list.
ps_freeprocess(ps, i) ==
    [j \in 1..(Len(ps) - 1) |-> IF j < i THEN ps[j] ELSE ps[j + 1]]

\* The descriptor of the parent's end of the channel to worker pid.
ChannelFd(pid) == 10 + pid

\* ps_dostart as its caller sees it in the calling process: -1 when the
\* channel or the fork fails, else the pid of the new process, with
\* *priv_pid and *priv_fd set.
ps_dostart_parent(ps, i, forked, pid) ==
    IF forked
    THEN [start |-> pid,
          procs |-> [ps EXCEPT ![i].psp_pid = pid, ![i].psp_fd = ChannelFd(pid)]]
    ELSE [start |-> -1, procs |-> ps]

\* ps_dostart as it returns in the new process: the start callback has run,
\* and its failure is the failure of ps_dostart.
ps_dostart_child(callback_ret) == IF callback_ret = -1 THEN -1 ELSE 0

\* ctx->ps_inet_fd in the new process: the descriptor the fork copied, or
\* -1 when ps_dostart closed the channels the new process inherited.
ps_dostart_inherit(fd, closes) == IF closes THEN -1 ELSE fd

-----------------------------------------------------------------------------
(* ps_inet_sendmsg and ps_inet_cmd.                                        *)

\* The protocols ps_inet_cmd can start a worker for.
StartTags == {PS_BOOTP, PS_DHCP6} \cup (IF SUN THEN {PS_ND} ELSE {})

\* The protocols ps_inet_sendmsg has a default socket for.
SendTags == {PS_BOOTP, PS_DHCP6} \cup (IF SUN THEN {} ELSE {PS_ND})

\* ps_inet_sendmsg whose default case falls through to the DHCP socket.
ps_inet_sendmsg_socket_fallthrough(c, ps, psm) ==
    LET psp == ps_findprocess(ps, psm.ps_id) IN
    IF psp # 0 THEN [route |-> "psp", s |-> ps[psp].psp_work_fd]
    ELSE IF psm.ps_cmd = PS_ND /\ ~SUN THEN [route |-> "default", s |-> c.nd_fd]
    ELSE IF psm.ps_cmd = PS_DHCP6 THEN [route |-> "default", s |-> c.dhcp6_wfd]
    ELSE [route |-> "default", s |-> c.udp_wfd]

\* ps_inet_sendmsg that looks at the command word first and at the registry
\* only for a tag it has no default socket for.
ps_inet_sendmsg_socket_tagfirst(c, ps, psm) ==
    LET psp == ps_findprocess(ps, psm.ps_id) IN
    IF psm.ps_cmd = PS_BOOTP THEN [route |-> "default", s |-> c.udp_wfd]
    ELSE IF psm.ps_cmd = PS_ND /\ ~SUN THEN [route |-> "default", s |-> c.nd_fd]
    ELSE IF psm.ps_cmd = PS_DHCP6 THEN [route |-> "default", s |-> c.dhcp6_wfd]
    ELSE IF psp # 0 THEN [route |-> "psp", s |-> ps[psp].psp_work_fd]
    ELSE [route |-> "none", s |-> -1]

\* The socket ps_inet_sendmsg sends on: that of the record with the
\* message's key if there is one, else the default socket of the command
\* word; "none" when the switch takes its default case.
ps_inet_sendmsg_socket(c, ps, psm) ==
    LET psp == ps_findprocess(ps, psm.ps_id) IN
    IF psp # 0 THEN [route |-> "psp", s |-> ps[psp].psp_work_fd]
    ELSE IF psm.ps_cmd = PS_BOOTP THEN [route |-> "default", s |-> c.udp_wfd]
    ELSE IF psm.ps_cmd = PS_ND /\ ~SUN THEN [route |-> "default", s |-> c.nd_fd]
    ELSE IF psm.ps_cmd = PS_DHCP6 THEN [route |-> "default", s |-> c.dhcp6_wfd]
    ELSE [route |-> "none", s |-> -1]

\* ps_inet_cmd without the shortcut for data messages and without the
\* check of PS_START: a command word with no flag goes on to the switch.
ps_inet_cmd_path_datastart(ps_cmd, psp) ==
    LET cmd == StripFlags(ps_cmd) IN
    IF HasStop(ps_cmd) THEN (IF psp = 0 THEN "stop" ELSE "assert")
    ELSE IF cmd \notin StartTags THEN "ENOTSUP"
    ELSE IF psp # 0 THEN "exists"
    ELSE "spawn"

\* ps_inet_cmd without "if (psp != NULL) return 1": a START whose key has a
\* record spawns again.
ps_inet_cmd_path_respawn(ps_cmd, psp) ==
    LET cmd == StripFlags(ps_cmd) IN
    IF cmd = ps_cmd THEN "sendmsg"
    ELSE IF HasStop(ps_cmd) THEN (IF psp = 0 THEN "stop" ELSE "assert")
    ELSE IF cmd \notin StartTags THEN "ENOTSUP"
    ELSE IF ~HasStart(ps_cmd) THEN "EINVAL"
    ELSE "spawn"

\* ps_inet_cmd without the PS_STOP branch: a STOP goes on to the switch.
ps_inet_cmd_path_nostop(ps_cmd, psp) ==
    LET cmd == StripFlags(ps_cmd) IN
    IF cmd = ps_cmd THEN "sendmsg"
    ELSE IF cmd \notin StartTags THEN "ENOTSUP"
    ELSE IF ~HasStart(ps_cmd) THEN "EINVAL"
    ELSE IF psp # 0 THEN "exists"
    ELSE "spawn"

\* ps_inet_cmd testing PS_START before PS_STOP.
ps_inet_cmd_path_startfirst(ps_cmd, psp) ==
    LET cmd == StripFlags(ps_cmd) IN
    IF cmd = ps_cmd THEN "sendmsg"
    ELSE IF HasStop(ps_cmd) /\ ~HasStart(ps_cmd)
    THEN (IF psp = 0 THEN "stop" ELSE "assert")
    ELSE IF cmd \notin StartTags THEN "ENOTSUP"
    ELSE IF psp # 0 THEN "exists"
    ELSE "spawn"

\* ps_inet_cmd whose switch has no default case: an unknown tag starts the
\* last listener.
ps_inet_cmd_path_nodefault(ps_cmd, psp) ==
    LET cmd == StripFlags(ps_cmd) IN
    IF cmd = ps_cmd THEN "sendmsg"
    ELSE IF HasStop(ps_cmd) THEN (IF psp = 0 THEN "stop" ELSE "assert")
    ELSE IF ~HasStart(ps_cmd) THEN "EINVAL"
    ELSE IF psp # 0 THEN "exists"
    ELSE "spawn"

\* The branch ps_inet_cmd takes for a command word, psp being what
\* ps_findprocess returned (0 for NULL).
ps_inet_cmd_path(ps_cmd, psp) ==
    LET cmd == StripFlags(ps_cmd) IN
    IF cmd = ps_cmd THEN "sendmsg"
    ELSE IF HasStop(ps_cmd) THEN (IF psp = 0 THEN "stop" ELSE "assert")
    ELSE IF cmd \notin StartTags THEN "ENOTSUP"
    ELSE IF ~HasStart(ps_cmd) THEN "EINVAL"
    ELSE IF psp # 0 THEN "exists"
    ELSE "spawn"

\* switch (start) freeing the record whatever ps_dostart returned.
ps_inet_cmd_started_free(ps, i, start) ==
    [procs |-> ps_freeprocess(ps, i), ret |-> start]

\* switch (start) without ps_freeprocess in case -1.
ps_inet_cmd_started_nofree(ps, i, start) ==
    [procs |-> ps, ret |-> start]

\* switch (start) of ps_inet_cmd, in whichever process ps_dostart returned:
\* on -1 the record i is freed, and start is returned.
ps_inet_cmd_started(ps, i, start) ==
    IF start = -1
    THEN [procs |-> ps_freeprocess(ps, i), ret |-> -1]
    ELSE [procs |-> ps, ret |-> start]

\* The spawn of ps_inet_cmd in the calling process: ps_newprocess, then
\* ps_dostart, then the switch.  alloc and forked are what the system
\* grants; pid is the pid a fork would return.
ps_inet_cmd_spawn(ps, id, alloc, forked, pid) ==
    IF ~alloc THEN [procs |-> ps, ret |-> -1]
    ELSE LET ps1 == ps_newprocess(ps, id)
             i == Len(ps1)
             d == ps_dostart_parent(ps1, i, forked, pid)
         IN  ps_inet_cmd_started(d.procs, i, d.start)

-----------------------------------------------------------------------------
(* The listen callbacks of the workers: ps_inet_listenin (PS_BOOTP),       *)
(* ps_inet_listenin6 (PS_DHCP6) and, on __sun, ps_inet_listennd (PS_ND).   *)
(* They differ in the socket they open and the receive callback they       *)
(* register; each runs in the forked worker.                               *)

\* The descriptor a worker's bound socket gets, and its end of the channel.
WorkFd == 7
ChildChannelFd == 3

\* start_func of ps_inet_cmd, for a command word that is in StartTags.
start_func(cmd) ==
    IF cmd = PS_BOOTP THEN "ps_inet_listenin"
    ELSE IF cmd = PS_ND THEN "ps_inet_listennd"
    ELSE "ps_inet_listenin6"

\* The receive callback each listen callback registers.
recv_func(listen) ==
    IF listen = "ps_inet_listenin" THEN "ps_inet_recvinbootp"
    ELSE IF listen = "ps_inet_listennd" THEN "ps_inet_recvin6nd"
    ELSE "ps_inet_recvin6dhcp6"

\* A listen callback that only logs a failure to limit the rights.
ps_inet_listen_lenient(fail) ==
    IF fail = "open"
    THEN [ret |-> -1, psp_work_fd |-> -1, registered |-> FALSE,
          events |-> <<>>, log |-> "open"]
    ELSE IF fail = "add"
    THEN [ret |-> -1, psp_work_fd |-> WorkFd, registered |-> FALSE,
          events |-> <<"open">>, log |-> "eloop_event_add"]
    ELSE [ret |-> 0, psp_work_fd |-> WorkFd, registered |-> TRUE,
          events |-> <<"open", "register">>,
          log |-> IF HAVE_CAPSICUM /\ fail = "rights"
                  THEN "cap_rights_limit" ELSE ""]

\* A listen callback: open the socket, limit its rights (HAVE_CAPSICUM),
\* register it.  fail names the step the system refuses, if any.  A socket
\* opened before a later step fails stays open and unregistered.
ps_inet_listen(fail) ==
    IF fail = "open"
    THEN [ret |-> -1, psp_work_fd |-> -1, registered |-> FALSE,
          events |-> <<>>, log |-> "open"]
    ELSE IF HAVE_CAPSICUM /\ fail = "rights"
    THEN [ret |-> -1, psp_work_fd |-> WorkFd, registered |-> FALSE,
          events |-> <<"open">>, log |-> "cap_rights_limit"]
    ELSE IF fail = "add"
    THEN [ret |-> -1, psp_work_fd |-> WorkFd, registered |-> FALSE,
          events |-> <<"open">>, log |-> "eloop_event_add"]
    ELSE [ret |-> 0, psp_work_fd |-> WorkFd, registered |-> TRUE,
          events |-> <<"open", "register">>, log |-> ""]

-----------------------------------------------------------------------------
(* ps_inet_startcb and ps_inet_start: the start of the network proxy.      *)

Options == {"DHCPCD_MASTER", "DHCPCD_IPV4", "DHCPCD_IPV6", "DHCPCD_DHCP6"}

\* The default sockets ps_inet_startcb handles, in the order of its blocks;
\* the block of ctx->nd_fd is compiled out on __sun.
Protos == <<"udp_rfd", "nd_fd", "dhcp6_rfd">>

\* The condition on ctx->options that guards the block of a default socket.
ps_inet_startcb_enabled(p, options) ==
    IF p = "udp_rfd" THEN {"DHCPCD_IPV4", "DHCPCD_MASTER"} \subseteq options
    ELSE IF p = "nd_fd" THEN ~SUN /\ "DHCPCD_IPV6" \in options
    ELSE {"DHCPCD_DHCP6", "DHCPCD_MASTER"} \subseteq options

\* The receive callback registered for each default socket.
ps_inet_startcb_recv(p) ==
    IF p = "udp_rfd" THEN "ps_inet_recvbootp"
    ELSE IF p = "nd_fd" THEN "ps_inet_recvra"
    ELSE "ps_inet_recvdhcp6"

\* The command word each receive callback of the proxy hands to ps_recvmsg.
ps_inet_recv_cmd(callback) ==
    IF callback = "ps_inet_recvbootp" THEN PS_BOOTP
    ELSE IF callback = "ps_inet_recvra" THEN PS_ND
    ELSE PS_DHCP6

\* The descriptor a default socket gets when it opens.
DefaultFd(p) ==
    IF p = "udp_rfd" THEN 20 ELSE IF p = "nd_fd" THEN 21 ELSE 22

\* What the system may do to the block of one default socket: nothing, or
\* fail the open, the rights limit (other than with ENOSYS), the rights
\* limit with ENOSYS, or the registration.
StartFails == {"none", "open", "rights", "enosys", "add"}

\* What ps_inet_startcb holds when it enters its first block: every
\* default socket absent, ret = 0, errno = 0, the engine's end closed.
StartcbInit(options) ==
    [options |-> options,
     fd |-> [p \in {"udp_rfd", "nd_fd", "dhcp6_rfd"} |-> -1],
     registered |-> {}, ret |-> 0, errno |-> "0", ps_data_fd |-> -1,
     events |-> <<>>, log |-> {}]

\* One block with the rights limit treated as the sandbox steps are: its
\* failure is logged and the socket is registered all the same.
ps_inet_startcb_block_lenient(st, p, fail) ==
    IF ~ps_inet_startcb_enabled(p, st.options) THEN st
    ELSE IF fail = "open"
    THEN [st EXCEPT !.errno = "EMFILE", !.log = @ \cup {<<p, "open">>},
                    !.events = Append(@, <<"open-failed", p>>)]
    ELSE IF fail = "add"
    THEN [st EXCEPT !.errno = "ENOMEM",
                    !.log = @ \cup {<<p, "eloop_event_add">>},
                    !.events = @ \o <<<<"open", p>>, <<"close", p>>>>]
    ELSE [st EXCEPT !.fd[p] = DefaultFd(p),
                    !.registered = @ \cup {p},
                    !.ret = @ + 1,
                    !.log = @ \cup (IF HAVE_CAPSICUM /\ fail = "rights"
                                    THEN {<<p, "cap_rights_limit">>} ELSE {}),
                    !.events = @ \o <<<<"open", p>>, <<"register", p>>>>]

\* One block that leaves the socket open when its registration fails.
ps_inet_startcb_block_leak(st, p, fail) ==
    IF ~ps_inet_startcb_enabled(p, st.options) THEN st
    ELSE IF fail = "open"
    THEN [st EXCEPT !.errno = "EMFILE", !.log = @ \cup {<<p, "open">>},
                    !.events = Append(@, <<"open-failed", p>>)]
    ELSE IF fail = "add" \/ (HAVE_CAPSICUM /\ fail = "rights")
    THEN [st EXCEPT !.fd[p] = DefaultFd(p), !.errno = "ENOMEM",
                    !.log = @ \cup {<<p, "eloop_event_add">>},
                    !.events = Append(@, <<"open", p>>)]
    ELSE [st EXCEPT !.fd[p] = DefaultFd(p),
                    !.registered = @ \cup {p},
                    !.ret = @ + 1,
                    !.events = @ \o <<<<"open", p>>, <<"register", p>>>>]

\* One block of ps_inet_startcb, for the default socket p: open it; limit
\* its rights (HAVE_CAPSICUM); register it; count it.  A failure of the
\* open is logged; a failure of the rights limit other than ENOSYS, or of
\* the registration, is logged and the socket is closed and set to -1.
ps_inet_startcb_block(st, p, fail) ==
    IF ~ps_inet_startcb_enabled(p, st.options) THEN st
    ELSE IF fail = "open"
    THEN [st EXCEPT !.errno = "EMFILE", !.log = @ \cup {<<p, "open">>},
                    !.events = Append(@, <<"open-failed", p>>)]
    ELSE IF HAVE_CAPSICUM /\ fail = "rights"
    THEN [st EXCEPT !.errno = "ENOTCAPABLE",
                    !.log = @ \cup {<<p, "cap_rights_limit">>},
                    !.events = @ \o <<<<"open", p>>, <<"close", p>>>>]
    ELSE IF fail = "add"
    THEN [st EXCEPT !.errno = "ENOMEM",
                    !.log = @ \cup {<<p, "eloop_event_add">>},
                    !.events = @ \o <<<<"open", p>>, <<"close", p>>>>]
    ELSE [st EXCEPT !.fd[p] = DefaultFd(p),
                    !.registered = @ \cup {p},
                    !.ret = @ + 1,
                    !.errno = IF HAVE_CAPSICUM /\ fail = "enosys"
                              THEN "ENOSYS" ELSE @,
                    !.events = @ \o <<<<"open", p>>, <<"register", p>>>>]

\* The end of ps_inet_startcb with every zero count reported as a failure.
ps_inet_startcb_return_strict(st) ==
    IF st.ret = 0
    THEN [st EXCEPT !.ret = -1, !.errno = "ENXIO"]
    ELSE st

\* The end of ps_inet_startcb: -1 with ENXIO when nothing was registered
\* and errno is still 0, else the count.
ps_inet_startcb_return(st) ==
    IF st.ret = 0 /\ st.errno = "0"
    THEN [st EXCEPT !.ret = -1, !.errno = "ENXIO"]
    ELSE st

\* ps_inet_startcb: the three blocks in order, then the return.  fails
\* gives, for each default socket, what the system does to its block.
ps_inet_startcb(options, fails) ==
    LET s0 == StartcbInit(options)
        s1 == ps_inet_startcb_block(s0, Protos[1], fails[Protos[1]])
        s2 == ps_inet_startcb_block(s1, Protos[2], fails[Protos[2]])
        s3 == ps_inet_startcb_block(s2, Protos[3], fails[Protos[3]])
    IN  ps_inet_startcb_return(s3)

\* The sandbox step of ps_inet_start coming before ps_dostart.
ps_inet_start_sandbox_first(st, pid, entered) ==
    IF pid = 0 /\ (HAVE_CAPSICUM \/ HAVE_PLEDGE)
    THEN [st EXCEPT
            !.events = <<<<IF HAVE_CAPSICUM THEN "cap_enter" ELSE "pledge",
                           "process">>>> \o @,
            !.log = @ \cup (IF entered THEN {}
                            ELSE {<<"process", IF HAVE_CAPSICUM
                                               THEN "cap_enter" ELSE "pledge">>})]
    ELSE st

\* What follows ps_dostart in ps_inet_start, in the process where it
\* returned pid: when pid is 0, cap_enter (HAVE_CAPSICUM) or pledge
\* (HAVE_PLEDGE), whose failure is logged.
ps_inet_start_sandbox(st, pid, entered) ==
    IF pid = 0 /\ (HAVE_CAPSICUM \/ HAVE_PLEDGE)
    THEN [st EXCEPT
            !.events = Append(@, <<IF HAVE_CAPSICUM THEN "cap_enter" ELSE "pledge",
                                   "process">>),
            !.log = @ \cup (IF entered THEN {}
                            ELSE {<<"process", IF HAVE_CAPSICUM
                                               THEN "cap_enter" ELSE "pledge">>})]
    ELSE st

-----------------------------------------------------------------------------
(* State.                                                                  *)

\* What the registry process holds of its default sockets and channels when
\* requests start to arrive (they are opened outside privsep-inet.c): here
\* the DHCPv6 socket is absent.
CtxInit ==
    [udp_wfd |-> 4, nd_fd |-> 5, dhcp6_wfd |-> -1, ps_inet_fd |-> 8,
     ps_data_fd |-> 9]

Signals == {"SIGINT", "SIGTERM", "SIGHUP", "SIGUSR1"}

NoMsg == [ps_cmd |-> 0, ps_id |-> ZeroId]

\* The record of a call: who made it (pid 0 is the registry process, -1 the
\* network proxy), the header it was given or sent, what ps_findprocess
\* found, the branch taken, the value returned with errno, the socket a
\* send went to (-1: no send), what was logged and the signal delivered.
Call(op, pid, psm, found, path, ret, errno, s, log, sig) ==
    [op |-> op, pid |-> pid, psm |-> psm, found |-> found, path |-> path,
     ret |-> ret, errno |-> errno, s |-> s, log |-> log, sig |-> sig]

\* The network proxy before ps_inet_start has run in it.
ProxyNew == [phase |-> "new", pid |-> 0, cb |-> StartcbInit({})]

\* The network proxy as ps_inet_start leaves it when every option is set
\* and the system refuses nothing: in its event loop.
ProxyRunning ==
    LET cb == ps_inet_startcb(Options, [p \in {"udp_rfd", "nd_fd", "dhcp6_rfd"} |-> "none"])
    IN  [phase |-> "loop", pid |-> 0, cb |-> ps_inet_start_sandbox(cb, 0, TRUE)]

\* The registry process and the network proxy are up, no worker is.
Init ==
    /\ build \in Builds
    /\ ctx = CtxInit
    /\ procs = <<>>
    /\ workers = <<>>
    /\ sup = [ps_inet_fd |-> 8, shut |-> {}, exit |-> "none"]
    /\ proxy = ProxyRunning
    /\ aborted = FALSE
    /\ last = Call("init", 0, NoMsg, FALSE, "", 0, "", -1, "", "")

\* The same, before the network proxy has started.
InitStart ==
    /\ build \in Builds
    /\ ctx = CtxInit
    /\ procs = <<>>
    /\ workers = <<>>
    /\ sup = [ps_inet_fd |-> 8, shut |-> {}, exit |-> "none"]
    /\ proxy = ProxyNew
    /\ aborted = FALSE
    /\ last = Call("init", 0, NoMsg, FALSE, "", 0, "", -1, "", "")

\* A worker that has left: its memory is gone.
Gone ==
    [psp_id |-> ZeroId, cmd |-> 0, listen |-> "", phase |-> "gone", procs |-> <<>>,
     psp |-> 0, psp_work_fd |-> -1, registered |-> FALSE, events |-> <<>>,
     ps_inet_fd |-> -1, psp_fd |-> -1, shut |-> {}, exit |-> "none"]

-----------------------------------------------------------------------------
(* Requests to the registry process.                                       *)

\* A dispatcher that hands every request to ps_inet_cmd.
StopsWorker_never(psm) == FALSE

\* A request with STOP set whose key has a record does not reach
\* ps_inet_cmd (its assertion says so): the dispatcher of the registry
\* process stops the worker, waits for it and frees the record.
StopsWorker(psm) ==
    HasStop(psm.ps_cmd) /\ ps_findprocess(procs, psm.ps_id) # 0

ps_stop(psm) ==
    /\ ~aborted
    /\ LET i == ps_findprocess(procs, psm.ps_id)
           pid == procs[i].psp_pid
       IN  /\ procs' = ps_freeprocess(procs, i)
           /\ workers' = [workers EXCEPT ![pid] = Gone]
    /\ last' = Call("stop", 0, psm, TRUE, "stop", 0, "", -1, "", "")
    /\ UNCHANGED <<build, proxy, ctx, sup, aborted>>

\* The payloads of the requests: a START or a STOP has none (msg is NULL),
\* a data message carries a datagram with its address data.
NoPayload == "NULL"
Payloads == {"datagram-a", "datagram-b"}

\* sendmsg(s, msg, 0) on the socket ps_inet_sendmsg chose; sent says whether
\* the system takes the datagram.  sends counts the calls of sendmsg, and
\* wire is what the one call was given.
ps_inet_sendmsg(psm, sent) ==
    LET t == ps_inet_sendmsg_socket(ctx, procs, psm) IN
    IF t.route = "none" THEN [ret |-> -1, errno |-> "EINVAL", s |-> -1, sends |-> 0]
    ELSE IF t.s = -1 THEN [ret |-> -1, errno |-> "EBADF", s |-> t.s, sends |-> 1]
    ELSE IF ~sent THEN [ret |-> -1, errno |-> "EIO", s |-> t.s, sends |-> 1]
    ELSE [ret |-> 1, errno |-> "", s |-> t.s, sends |-> 1]

\* What a data message leaves in the record of its call: the route taken,
\* the number of sendmsg calls, the msghdr ps_inet_cmd was given and the
\* one sendmsg was handed.
SendRecord(psm, msg, r) ==
    [route |-> ps_inet_sendmsg_socket(ctx, procs, psm).route,
     sends |-> r.sends,
     msg |-> msg,
     wire |-> IF r.sends = 0 THEN NoPayload ELSE msg]

\* A new worker, as fork leaves it: a copy of its parent's memory, in which
\* ps_dostart sets *priv_fd to the worker's end of the channel.
NewWorker(ps, i, cmd) ==
    [psp_id |-> ps[i].psp_id, cmd |-> cmd, listen |-> start_func(cmd),
     phase |-> "forked",
     procs |-> [ps EXCEPT ![i].psp_pid = 0, ![i].psp_fd = ChildChannelFd],
     psp |-> i, psp_work_fd |-> -1, registered |-> FALSE,
     events |-> <<>>, ps_inet_fd |-> ctx.ps_inet_fd, psp_fd |-> ChildChannelFd,
     shut |-> {}, exit |-> "none"]

\* What the system may refuse during a request, by the branch taken.
SysFails(path) ==
    IF path = "sendmsg" THEN {"none", "send"}
    ELSE IF path = "spawn" THEN {"none", "alloc", "fork"}
    ELSE {"none"}

\* ps_inet_cmd in the registry process.  sys names the system call that
\* fails, if any; an assertion that fails aborts the process unless the
\* build defines NDEBUG.
ps_inet_cmd_msg(psm, msg, sys) ==
    /\ ~aborted
    /\ LET psp == ps_findprocess(procs, psm.ps_id)
           path == ps_inet_cmd_path(psm.ps_cmd, psp)
           pid == Len(workers) + 1
       IN
       /\ sys \in SysFails(path)
       /\ CASE path = "sendmsg" ->
              LET r == ps_inet_sendmsg(psm, sys # "send") IN
              /\ last' = Call("cmd", 0, psm, psp # 0, path, r.ret, r.errno,
                              IF r.sends = 0 THEN -1 ELSE r.s, "", "")
                          @@ SendRecord(psm, msg, r)
              /\ UNCHANGED <<procs, workers, aborted>>
         [] path = "stop" ->
              /\ last' = Call("cmd", 0, psm, psp # 0, path, 0, "", -1, "", "")
              /\ UNCHANGED <<procs, workers, aborted>>
         [] path = "assert" ->
              /\ last' = Call("cmd", 0, psm, psp # 0, path, 0, "", -1, "", "")
              /\ aborted' \in BOOLEAN
              /\ UNCHANGED <<procs, workers>>
         [] path = "ENOTSUP" ->
              /\ last' = Call("cmd", 0, psm, psp # 0, path, -1, "ENOTSUP", -1,
                              "unknown command", "")
              /\ UNCHANGED <<procs, workers, aborted>>
         [] path = "EINVAL" ->
              /\ last' = Call("cmd", 0, psm, psp # 0, path, -1, "EINVAL", -1, "", "")
              /\ UNCHANGED <<procs, workers, aborted>>
         [] path = "exists" ->
              /\ last' = Call("cmd", 0, psm, psp # 0, path, 1, "", -1, "", "")
              /\ UNCHANGED <<procs, workers, aborted>>
         [] path = "spawn" ->
              LET alloc == sys # "alloc"
                  forked == sys # "fork"
                  r == ps_inet_cmd_spawn(procs, psm.ps_id, alloc, forked, pid)
              IN  /\ (alloc /\ forked) => pid <= MaxProcs
                  /\ procs' = r.procs
                  /\ workers' =
                       IF alloc /\ forked
                       THEN Append(workers,
                               NewWorker(ps_newprocess(procs, psm.ps_id),
                                         Len(procs) + 1, StripFlags(psm.ps_cmd)))
                       ELSE workers
                  /\ last' = Call("cmd", 0, psm, psp # 0,
                                  IF ~alloc THEN "spawn-alloc"
                                  ELSE IF ~forked THEN "spawn-dostart"
                                  ELSE "spawn-forked",
                                  r.ret, IF ~alloc THEN "ENOMEM"
                                         ELSE IF ~forked THEN "EAGAIN" ELSE "",
                                  -1, "", "")
                  /\ UNCHANGED aborted
    /\ UNCHANGED <<build, proxy, ctx, sup>>

\* ps_inet_cmd where the payload does not matter: one datagram stands for
\* all.
ps_inet_cmd(psm, sys) ==
    ps_inet_cmd_msg(psm, IF IsData(psm.ps_cmd) THEN "datagram-a" ELSE NoPayload, sys)

-----------------------------------------------------------------------------
(* The worker processes.                                                   *)

ListenFails == {"none", "open", "rights", "enosys", "add"}

\* What is left of ps_inet_cmd in the forked worker: ps_dostart runs the
\* listen callback and returns, then switch (start); on 0 the worker enters
\* capability mode (HAVE_CAPSICUM) or pledges (HAVE_PLEDGE).  On -1 the
\* record is freed in the worker's memory and the worker leaves.
ps_inet_cmd_child(w, fail) ==
    LET l == ps_inet_listen(fail)
        start == ps_dostart_child(l.ret)
        r == ps_inet_cmd_started(w.procs, w.psp, start)
    IN  [start |-> start, log |-> l.log,
         found |-> ps_findprocess(r.procs, w.psp_id) # 0,
         w |-> IF start = -1 THEN Gone
               ELSE [w EXCEPT
                       !.psp_work_fd = l.psp_work_fd,
                       !.registered = l.registered,
                       !.procs = <<>>,
                       !.events = l.events \o
                          (IF HAVE_CAPSICUM THEN <<"cap_enter">> ELSE <<>>) \o
                          (IF HAVE_PLEDGE THEN <<"pledge">> ELSE <<>>),
                       !.phase = "loop"]]

\* entered: cap_enter or pledge succeeds; its failure is logged.  closes:
\* ps_dostart closed the inherited channel before it ran the callback.
WorkerStart(pid, fail, entered, closes) ==
    /\ workers[pid].phase = "forked"
    /\ fail \in {"rights", "enosys"} => HAVE_CAPSICUM
    /\ ~entered => (fail = "none" /\ (HAVE_CAPSICUM \/ HAVE_PLEDGE))
    /\ closes => fail = "none"
    /\ LET c == ps_inet_cmd_child(workers[pid], fail) IN
       /\ workers' = [workers EXCEPT ![pid] =
                        IF c.start = -1 THEN c.w
                        ELSE [c.w EXCEPT !.ps_inet_fd =
                                ps_dostart_inherit(@, closes)]]
       /\ last' = Call("start", pid, [ps_cmd |-> 0, ps_id |-> workers[pid].psp_id],
                       c.found,
                       IF c.start = -1 THEN "listen-failed" ELSE "listen-ok",
                       c.start, "", -1,
                       IF c.log # "" THEN c.log
                       ELSE IF ~entered /\ HAVE_CAPSICUM THEN "cap_enter"
                       ELSE IF ~entered /\ HAVE_PLEDGE THEN "pledge"
                       ELSE "", "")
    /\ UNCHANGED <<build, proxy, ctx, procs, sup, aborted>>

\* ps_recvmsg(ctx, rfd, cmd, wfd) (privsep.c): a datagram read from rfd is
\* written to wfd under a header made from cmd alone; the function is given
\* no identity key.
ps_recvmsg(cmd) == [ps_cmd |-> cmd, ps_id |-> ZeroId]

\* Every receive callback handing PS_BOOTP to ps_recvmsg.
ps_inet_recvin_cmd_bootp(callback) == PS_BOOTP

\* The command word each receive callback of a worker hands to ps_recvmsg.
ps_inet_recvin_cmd(callback) ==
    IF callback = "ps_inet_recvinbootp" THEN PS_BOOTP
    ELSE IF callback = "ps_inet_recvin6nd" THEN PS_ND
    ELSE PS_DHCP6

\* ps_inet_recvinbootp, ps_inet_recvin6nd, ps_inet_recvin6dhcp6: a datagram
\* is readable on the worker's socket.  received: the read succeeds.
ps_inet_recvin(pid, received) ==
    /\ workers[pid].phase = "loop"
    /\ workers[pid].exit = "none"
    /\ workers[pid].registered
    /\ LET w == workers[pid]
           m == ps_recvmsg(ps_inet_recvin_cmd(recv_func(w.listen)))
       IN  last' = IF received
                   THEN Call("recvin", pid, m, FALSE, "forward", 1, "",
                             ctx.ps_data_fd, "", "")
                   ELSE Call("recvin", pid, NoMsg, FALSE, "logerr", -1, "EIO",
                             -1, "recv", "")
    /\ UNCHANGED <<build, proxy, ctx, procs, workers, sup, aborted>>

\* ps_inet_signalcb with one exit status for every signal it acts on.
ps_inet_signalcb_onestatus(sig, c) ==
    IF sig = "SIGINT" THEN c
    ELSE [c EXCEPT
            !.shut = @ \cup ({c.ps_inet_fd} \ {-1}),
            !.exit = "EXIT_FAILURE"]

\* ps_inet_signalcb on the context c of the process the signal reached:
\* shutdown(ctx->ps_inet_fd, SHUT_RDWR), then eloop_exit.
ps_inet_signalcb(sig, c) ==
    IF sig = "SIGINT" THEN c
    ELSE [c EXCEPT
            !.shut = @ \cup ({c.ps_inet_fd} \ {-1}),
            !.exit = IF sig = "SIGTERM" THEN "EXIT_SUCCESS" ELSE "EXIT_FAILURE"]

WorkerSignal(pid, sig) ==
    /\ workers[pid].phase = "loop"
    /\ workers[pid].exit = "none"
    /\ workers' = [workers EXCEPT ![pid] = ps_inet_signalcb(sig, workers[pid])]
    /\ last' = Call("signal", pid, NoMsg, FALSE, "", 0, "", -1, "", sig)
    /\ UNCHANGED <<build, proxy, ctx, procs, sup, aborted>>

SupSignal(sig) ==
    /\ proxy.phase = "loop"
    /\ sup.exit = "none"
    /\ sup' = ps_inet_signalcb(sig, sup)
    /\ last' = Call("signal", -1, NoMsg, FALSE, "", 0, "", -1, "", sig)
    /\ UNCHANGED <<build, proxy, ctx, procs, workers, aborted>>

\* The event loop of a worker returns once eloop_exit was called.
WorkerExit(pid) ==
    /\ workers[pid].phase = "loop"
    /\ workers[pid].exit # "none"
    /\ workers' = [workers EXCEPT ![pid] = Gone]
    /\ last' = Call("exit", pid, NoMsg, FALSE, "", 0, "", -1, "", "")
    /\ UNCHANGED <<build, proxy, ctx, procs, sup, aborted>>

-----------------------------------------------------------------------------
(* The network proxy.                                                      *)

\* ps_inet_start in the process ps_dostart forked: ps_inet_startcb has run
\* there, ps_dostart returns 0 (or -1 when the callback failed), and on 0
\* the process enters capability mode or pledges.  entered: that succeeds.
ps_inet_start(options, fails, entered) ==
    /\ proxy.phase = "new"
    /\ \A p \in DOMAIN fails :
          /\ ~ps_inet_startcb_enabled(p, options) => fails[p] = "none"
          /\ fails[p] \in {"rights", "enosys"} => HAVE_CAPSICUM
    /\ LET cb == ps_inet_startcb(options, fails)
           pid == ps_dostart_child(cb.ret)
           st == ps_inet_start_sandbox(cb, pid, entered)
       IN  /\ ~entered => (pid = 0 /\ (HAVE_CAPSICUM \/ HAVE_PLEDGE))
           /\ proxy' = [phase |-> IF pid = 0 THEN "loop" ELSE "failed",
                        pid |-> pid, cb |-> st]
           /\ last' = Call("ps_inet_start", -1, NoMsg, FALSE,
                           IF pid = 0 THEN "started" ELSE "start-failed",
                           pid, cb.errno, -1,
                           IF ~entered /\ HAVE_CAPSICUM THEN "cap_enter"
                           ELSE IF ~entered /\ HAVE_PLEDGE THEN "pledge"
                           ELSE "", "")
    /\ UNCHANGED <<build, ctx, procs, workers, sup, aborted>>

\* ps_inet_recvbootp, ps_inet_recvra, ps_inet_recvdhcp6: the default socket
\* p is readable; what is read is written to ctx->ps_inet_fd.
ps_inet_recv(p, received) ==
    /\ proxy.phase = "loop"
    /\ sup.exit = "none"
    /\ p \in proxy.cb.registered
    /\ last' = IF received
               THEN Call("recv", -1,
                         ps_recvmsg(ps_inet_recv_cmd(ps_inet_startcb_recv(p))),
                         FALSE, "forward", 1, "", sup.ps_inet_fd, "", "")
               ELSE Call("recv", -1, NoMsg, FALSE, "logerr", -1, "EIO", -1,
                         "recv", "")
    /\ UNCHANGED <<build, proxy, ctx, procs, workers, sup, aborted>>

\* ps_recvpsmsg that returns the failure of its read and no more.
ps_recvpsmsg_returns(read, c) ==
    IF read = "error" THEN [ret |-> -1, c |-> c]
    ELSE IF read = "eof" THEN [ret |-> 0, c |-> [c EXCEPT !.exit = "EXIT_SUCCESS"]]
    ELSE [ret |-> 1, c |-> c]

\* ps_recvpsmsg(ctx, fd, NULL, NULL) (privsep.c) on the context c of a
\* process reading its own control channel: a read that fails, or that
\* finds the far end closed, asks the event loop to stop.
ps_recvpsmsg(read, c) ==
    IF read = "error" THEN [ret |-> -1, c |-> [c EXCEPT !.exit = "EXIT_FAILURE"]]
    ELSE IF read = "eof" THEN [ret |-> 0, c |-> [c EXCEPT !.exit = "EXIT_SUCCESS"]]
    ELSE [ret |-> 1, c |-> c]

Reads == {"msg", "eof", "error"}

\* ps_inet_recvmsg: the control channel of the network proxy is readable.
ps_inet_recvmsg(read) ==
    /\ proxy.phase = "loop"
    /\ sup.exit = "none"
    /\ LET r == ps_recvpsmsg(read, sup) IN
       /\ sup' = r.c
       /\ last' = Call("recvmsg", -1, NoMsg, FALSE, read, r.ret,
                       IF r.ret = -1 THEN "EIO" ELSE "", -1,
                       IF r.ret = -1 THEN "ps_inet_recvmsg" ELSE "", "")
    /\ UNCHANGED <<build, proxy, ctx, procs, workers, aborted>>

\* ps_inet_recvmsgpsp: the control channel of a worker is readable.
ps_inet_recvmsgpsp(pid, read) ==
    /\ workers[pid].phase = "loop"
    /\ workers[pid].exit = "none"
    /\ LET r == ps_recvpsmsg(read, workers[pid]) IN
       /\ workers' = [workers EXCEPT ![pid] = r.c]
       /\ last' = Call("recvmsg", pid, NoMsg, FALSE, read, r.ret,
                       IF r.ret = -1 THEN "EIO" ELSE "", -1,
                       IF r.ret = -1 THEN "ps_inet_recvmsgpsp" ELSE "", "")
    /\ UNCHANGED <<build, proxy, ctx, procs, sup, aborted>>

\* The event loop of the network proxy returns once eloop_exit was called.
ProxyExit ==
    /\ proxy.phase = "loop"
    /\ sup.exit # "none"
    /\ proxy' = [proxy EXCEPT !.phase = "gone"]
    /\ last' = Call("exit", -1, NoMsg, FALSE, "", 0, "", -1, "", "")
    /\ UNCHANGED <<build, ctx, procs, workers, sup, aborted>>

\* ps_inet_dispatch with no default case.
ps_inet_dispatch_handler_nodefault(ps_cmd) ==
    IF ps_cmd = PS_BOOTP THEN "dhcp_recvmsg"
    ELSE IF StripFlags(ps_cmd) = PS_ND THEN "ipv6nd_recvmsg"
    ELSE "dhcp6_recvmsg"

\* switch (psm->ps_cmd) of ps_inet_dispatch: the handler of the engine a
\* forwarded datagram is given to.
ps_inet_dispatch_handler(ps_cmd) ==
    IF ps_cmd = PS_BOOTP THEN "dhcp_recvmsg"
    ELSE IF ps_cmd = PS_ND THEN "ipv6nd_recvmsg"
    ELSE IF ps_cmd = PS_DHCP6 THEN "dhcp6_recvmsg"
    ELSE "ENOTSUP"

\* ps_inet_dispatch in the engine (pid -2), on a message from the proxy.
ps_inet_dispatch(psm) ==
    /\ LET h == ps_inet_dispatch_handler(psm.ps_cmd) IN
       last' = IF h = "ENOTSUP"
               THEN Call("dispatch", -2, psm, FALSE, h, -1, "ENOTSUP", -1, "", "")
               ELSE Call("dispatch", -2, psm, FALSE, h, 1, "", -1, "", "")
    /\ UNCHANGED <<build, proxy, ctx, procs, workers, sup, aborted>>

-----------------------------------------------------------------------------
(* Specifications.                                                         *)

\* The requests of the registry process, with the start of its workers.
Next ==
    \/ \E psm \in Headers : StopsWorker(psm) /\ ps_stop(psm)
    \/ \E psm \in Headers, sys \in {"none", "alloc", "fork", "send"} :
          ~StopsWorker(psm) /\ ps_inet_cmd(psm, sys)
    \/ \E pid \in DOMAIN workers, fail \in ListenFails,
          entered \in BOOLEAN, closes \in BOOLEAN :
          WorkerStart(pid, fail, entered, closes)

Spec == Init /\ [][Next]_vars

\* The requests that start a worker, with no system call failing.
StartHeaders ==
    { h \in Headers : HasStart(h.ps_cmd) /\ ~HasStop(h.ps_cmd)
                      /\ StripFlags(h.ps_cmd) \in StartTags }

\* The life of the workers and of the network proxy.
NextLoop ==
    \/ \E psm \in StartHeaders : ps_inet_cmd(psm, "none")
    \/ \E pid \in DOMAIN workers, fail \in ListenFails,
          entered \in BOOLEAN, closes \in BOOLEAN :
          WorkerStart(pid, fail, entered, closes)
    \/ \E pid \in DOMAIN workers, received \in BOOLEAN :
          ps_inet_recvin(pid, received)
    \/ \E pid \in DOMAIN workers, sig \in Signals : WorkerSignal(pid, sig)
    \/ \E sig \in Signals : SupSignal(sig)
    \/ \E pid \in DOMAIN workers : WorkerExit(pid)

SpecLoop == Init /\ [][NextLoop]_vars

DefaultSockets == {"udp_rfd", "nd_fd", "dhcp6_rfd"}

\* What ps_inet_start may be given: any options, and for every default
\* socket what the system does to its block.
StartInputs == [options : SUBSET Options, fails : [DefaultSockets -> StartFails]]

\* The network proxy alone: its start under every input, then its loop.
NextProxy ==
    \/ \E i \in StartInputs, entered \in BOOLEAN :
          ps_inet_start(i.options, i.fails, entered)
    \/ \E p \in DefaultSockets, received \in BOOLEAN : ps_inet_recv(p, received)
    \/ \E read \in Reads : ps_inet_recvmsg(read)
    \/ \E sig \in Signals : SupSignal(sig)
    \/ ProxyExit

SpecProxy == InitStart /\ [][NextProxy]_vars

\* The inputs of ps_inet_start in which the system refuses something in at
\* most MaxRefused blocks.
LifeInputs ==
    { i \in StartInputs :
        Cardinality({p \in DefaultSockets : i.fails[p] # "none"}) <= MaxRefused }

\* The requests that start a worker for the first address.
LifeHeaders == { h \in StartHeaders : h.ps_id.psi_addr = "10.0.0.5" }

\* The start of every process and the receive callbacks of its sockets:
\* the network proxy, and the workers of one address.
NextLife ==
    \/ \E i \in LifeInputs, entered \in BOOLEAN :
          ps_inet_start(i.options, i.fails, entered)
    \/ \E p \in DefaultSockets, received \in BOOLEAN : ps_inet_recv(p, received)
    \/ \E psm \in LifeHeaders : ps_inet_cmd(psm, "none")
    \/ \E pid \in DOMAIN workers, fail \in ListenFails,
          entered \in BOOLEAN, closes \in BOOLEAN :
          WorkerStart(pid, fail, entered, closes)
    \/ \E pid \in DOMAIN workers, received \in BOOLEAN :
          ps_inet_recvin(pid, received)

SpecLife == InitStart /\ [][NextLife]_vars

\* The control channels: the running network proxy and the workers read
\* theirs, and a process whose loop was asked to stop leaves it.
NextChan ==
    \/ \E psm \in LifeHeaders : ps_inet_cmd(psm, "none")
    \/ \E pid \in DOMAIN workers, fail \in ListenFails,
          entered \in BOOLEAN, closes \in BOOLEAN :
          WorkerStart(pid, fail, entered, closes)
    \/ \E pid \in DOMAIN workers, read \in Reads : ps_inet_recvmsgpsp(pid, read)
    \/ \E pid \in DOMAIN workers : WorkerExit(pid)
    \/ \E read \in Reads : ps_inet_recvmsg(read)
    \/ ProxyExit

\* eloop_start returns once eloop_exit was called: a process that was
\* asked to stop is not kept in its loop for ever.
SpecChan ==
    /\ Init
    /\ [][NextChan]_vars
    /\ WF_vars(ProxyExit)
    /\ \A pid \in 1..MaxProcs : WF_vars(pid \in DOMAIN workers /\ WorkerExit(pid))

\* The headers the engine is given by the network proxy and the workers:
\* any command word, no identity.
DispatchHeaders == { h \in Headers : h.ps_id = ZeroId } \cup
                   { [ps_cmd |-> c, ps_id |-> ZeroId] : c \in {PS_START + PS_BOOTP, PS_STOP + PS_OTHER} }

\* The requests of the registry process, and the engine dispatching what
\* comes back to it.
NextDispatch ==
    \/ \E psm \in Headers : StopsWorker(psm) /\ ps_stop(psm)
    \/ \E psm \in Headers, sys \in {"none", "alloc", "fork", "send"} :
          ~StopsWorker(psm) /\ ps_inet_cmd(psm, sys)
    \/ \E psm \in DispatchHeaders : ps_inet_dispatch(psm)

SpecDispatch == Init /\ [][NextDispatch]_vars

-----------------------------------------------------------------------------
(* The request functions of the engine: open, close and send for each     *)
(* protocol.                                                               *)

\* The functions this build has; ps_inet_opennd and ps_inet_closend exist
\* on __sun only.
RequestFuncs ==
    {"ps_inet_openbootp", "ps_inet_closebootp", "ps_inet_sendbootp",
     "ps_inet_sendnd",
     "ps_inet_opendhcp6", "ps_inet_closedhcp6", "ps_inet_senddhcp6"}
    \cup (IF SUN THEN {"ps_inet_opennd", "ps_inet_closend"} ELSE {})

\* The command words with ps_inet_close* passing PS_START as well.
request_cmd_closestart(f) ==
    IF f = "ps_inet_openbootp" THEN PS_START + PS_BOOTP
    ELSE IF f = "ps_inet_closebootp" THEN PS_START + PS_STOP + PS_BOOTP
    ELSE IF f = "ps_inet_sendbootp" THEN PS_BOOTP
    ELSE IF f = "ps_inet_opennd" THEN PS_ND + PS_START
    ELSE IF f = "ps_inet_closend" THEN PS_ND + PS_START + PS_STOP
    ELSE IF f = "ps_inet_sendnd" THEN PS_ND
    ELSE IF f = "ps_inet_opendhcp6" THEN PS_DHCP6 + PS_START
    ELSE IF f = "ps_inet_closedhcp6" THEN PS_DHCP6 + PS_START + PS_STOP
    ELSE PS_DHCP6

\* The command word each request function passes on.
request_cmd(f) ==
    IF f = "ps_inet_openbootp" THEN PS_START + PS_BOOTP
    ELSE IF f = "ps_inet_closebootp" THEN PS_STOP + PS_BOOTP
    ELSE IF f = "ps_inet_sendbootp" THEN PS_BOOTP
    ELSE IF f = "ps_inet_opennd" THEN PS_ND + PS_START
    ELSE IF f = "ps_inet_closend" THEN PS_ND + PS_STOP
    ELSE IF f = "ps_inet_sendnd" THEN PS_ND
    ELSE IF f = "ps_inet_opendhcp6" THEN PS_DHCP6 + PS_START
    ELSE IF f = "ps_inet_closedhcp6" THEN PS_DHCP6 + PS_STOP
    ELSE PS_DHCP6

\* Which of them build their header themselves (ps_inet_in_docmd,
\* ps_inet_in6_docmd, and on __sun ps_inet_ifp_docmd), the others handing
\* the command word to ps_sendmsg.
request_docmd(f) ==
    IF f \in {"ps_inet_openbootp", "ps_inet_closebootp"} THEN "ps_inet_in_docmd"
    ELSE IF f \in {"ps_inet_opendhcp6", "ps_inet_closedhcp6"} THEN "ps_inet_in6_docmd"
    ELSE IF f \in {"ps_inet_opennd", "ps_inet_closend"} \/ (f = "ps_inet_sendnd" /\ SUN)
    THEN "ps_inet_ifp_docmd"
    ELSE "ps_sendmsg"

\* (uint8_t)(cmd & ~(PS_START | PS_STOP))
psi_cmd_of(cmd) == StripFlags(cmd) % 256

\* The header of ps_inet_in_docmd and ps_inet_in6_docmd, for the address
\* addr of the interface ifindex.
ps_inet_in_docmd(ifindex, addr, cmd) ==
    [ps_cmd |-> cmd,
     ps_id |-> [psi_cmd |-> psi_cmd_of(cmd), psi_ifindex |-> ifindex,
                psi_addr |-> addr]]

\* The header of ps_inet_ifp_docmd: no address.
ps_inet_ifp_docmd(ifindex, cmd) ==
    [ps_cmd |-> cmd,
     ps_id |-> [psi_cmd |-> psi_cmd_of(cmd), psi_ifindex |-> ifindex,
                psi_addr |-> "0"]]

\* ps_sendmsg(ctx, fd, cmd, 0, msg) (privsep.c): it is given the command
\* word and no identity.
ps_sendmsg(cmd) == [ps_cmd |-> cmd, ps_id |-> ZeroId]

In4Addrs == {"10.0.0.5", "10.0.0.6"}
In6Addrs == {"fe80::5", "fe80::6"}

\* The header a request function has sent down ctx->ps_root_fd.
request_header(f, ifindex, addr) ==
    LET cmd == request_cmd(f)
        how == request_docmd(f)
    IN  IF how = "ps_sendmsg" THEN ps_sendmsg(cmd)
        ELSE IF how = "ps_inet_ifp_docmd" THEN ps_inet_ifp_docmd(ifindex, cmd)
        ELSE ps_inet_in_docmd(ifindex, addr, cmd)

\* A request function called in the engine (pid -2).
Request(f, ifindex, addr) ==
    /\ request_docmd(f) = "ps_inet_in_docmd" => addr \in In4Addrs
    /\ request_docmd(f) = "ps_inet_in6_docmd" => addr \in In6Addrs
    /\ last' = Call("request", -2, request_header(f, ifindex, addr), FALSE, f,
                    1, "", -1, "", "")
    /\ UNCHANGED <<build, proxy, ctx, procs, workers, sup, aborted>>

NextRequest ==
    \E f \in RequestFuncs, ifindex \in 1..MaxIfindex, addr \in In4Addrs \cup In6Addrs :
        Request(f, ifindex, addr)

SpecRequest == Init /\ [][NextRequest]_vars

\* The requests of the registry process with their payloads.
NextSend ==
    \/ \E psm \in Headers : StopsWorker(psm) /\ ps_stop(psm)
    \/ \E psm \in Headers, msg \in Payloads \cup {NoPayload},
          sys \in {"none", "alloc", "fork", "send"} :
          /\ ~StopsWorker(psm)
          /\ (msg = NoPayload) <=> ~IsData(psm.ps_cmd)
          /\ ps_inet_cmd_msg(psm, msg, sys)

SpecSend == Init /\ [][NextSend]_vars

-----------------------------------------------------------------------------
(* Properties.                                                             *)

Ids == Keys \cup {ZeroId}

Records(id) == {i \in DOMAIN procs : procs[i].psp_id = id}

Live(id) ==
    {pid \in DOMAIN workers :
        workers[pid].phase \in {"forked", "loop"} /\ workers[pid].psp_id = id}

StartOnly(ps_cmd) == HasStart(ps_cmd) /\ ~HasStop(ps_cmd)
StopOnly(ps_cmd) == HasStop(ps_cmd) /\ ~HasStart(ps_cmd)

\* C1: whatever requests were dispatched and whatever spawns failed, the
\* registry holds at most one record, and at most one worker is alive, for
\* each identity key.
C1_OneWorkerPerKey ==
    \A id \in Ids : Cardinality(Records(id)) <= 1 /\ Cardinality(Live(id)) <= 1

C1_Witness ==
    /\ Len(procs) = 2
    /\ \A id \in Keys : Cardinality(Live(id)) = 1
    /\ Len(workers) = 2

C3_IdempotentStart ==
    [][ ( /\ last'.op = "cmd"
          /\ StartOnly(last'.psm.ps_cmd)
          /\ StripFlags(last'.psm.ps_cmd) \in StartTags
          /\ last'.found )
        => ( /\ last'.ret = 1
             /\ procs' = procs
             /\ workers' = workers
             /\ Cardinality({i \in DOMAIN procs' :
                               procs'[i].psp_id = last'.psm.ps_id}) = 1 ) ]_vars

C3_Witness ==
    /\ last.op = "cmd"
    /\ StartOnly(last.psm.ps_cmd)
    /\ last.found
    /\ last.ret = 1
    /\ Cardinality(Records(last.psm.ps_id)) = 1

\* C4: a STOP for a key with no record returns 0 and changes nothing: no
\* record, no worker, the default sockets as they were.
C4_IdempotentStop ==
    [][ ( /\ last'.op = "cmd"
          /\ StopOnly(last'.psm.ps_cmd)
          /\ ~last'.found )
        => ( /\ last'.ret = 0
             /\ procs' = procs
             /\ workers' = workers
             /\ ctx' = ctx
             /\ aborted' = aborted ) ]_vars

C4_Witness ==
    /\ last.op = "cmd"
    /\ StopOnly(last.psm.ps_cmd)
    /\ ~last.found
    /\ last.ret = 0
    /\ procs = <<>>
    /\ workers = <<>>

\* C5 as stated: ps_inet_cmd rejects a command word with both START and
\* STOP set.
C5_BothFlagsRejected ==
    (last.op = "cmd" /\ HasStart(last.psm.ps_cmd) /\ HasStop(last.psm.ps_cmd))
        => last.ret = -1

\* C5, amended: ps_inet_cmd handles a command word with both START and STOP
\* set as a STOP alone: it returns 0 with no error for every protocol tag,
\* and adds no record and spawns nothing, so it is never taken as a START.
C5_BothFlagsStop ==
    [][ ( /\ last'.op = "cmd"
          /\ HasStart(last'.psm.ps_cmd)
          /\ HasStop(last'.psm.ps_cmd) )
        => ( /\ last'.ret = 0
             /\ last'.errno = ""
             /\ ~last'.found
             /\ procs' = procs
             /\ workers' = workers ) ]_vars

C5_Witness ==
    /\ last.op = "cmd"
    /\ HasStart(last.psm.ps_cmd)
    /\ HasStop(last.psm.ps_cmd)
    /\ StripFlags(last.psm.ps_cmd) \in StartTags
    /\ last.ret = 0

\* The tags no switch of privsep-inet.c names on any build.
Unsupported(ps_cmd) ==
    StripFlags(ps_cmd) \notin {PS_BOOTP, PS_ND, PS_DHCP6}

\* C6 as stated: every request with an unsupported protocol tag fails with
\* ENOTSUP, be it a START, a STOP or a data message.
C6_UnsupportedAlwaysENOTSUP ==
    (last.op = "cmd" /\ Unsupported(last.psm.ps_cmd))
        => (last.ret = -1 /\ last.errno = "ENOTSUP")

\* C6, amended: a START whose tag ps_inet_cmd cannot start fails with
\* ENOTSUP, with or without a record for its key; a request with STOP set
\* and an unsupported tag returns 0; a data message whose tag has no
\* default socket fails with EINVAL when no record has its key, and is sent
\* on the record's socket when one has.
C6_UnsupportedByKind ==
    /\ (last.op = "cmd" /\ StartOnly(last.psm.ps_cmd)
          /\ StripFlags(last.psm.ps_cmd) \notin StartTags)
          => (last.ret = -1 /\ last.errno = "ENOTSUP")
    /\ (last.op = "cmd" /\ HasStop(last.psm.ps_cmd)
          /\ Unsupported(last.psm.ps_cmd))
          => (last.ret = 0 /\ last.errno = "")
    /\ (last.op = "cmd" /\ IsData(last.psm.ps_cmd)
          /\ last.psm.ps_cmd \notin SendTags /\ ~last.found)
          => (last.ret = -1 /\ last.errno = "EINVAL")
    /\ (last.op = "cmd" /\ IsData(last.psm.ps_cmd) /\ last.found)
          => ( /\ last.errno \notin {"ENOTSUP", "EINVAL"}
               /\ last.s = procs[ps_findprocess(procs, last.psm.ps_id)].psp_work_fd )

C6_Witness ==
    /\ last.op = "cmd"
    /\ StartOnly(last.psm.ps_cmd)
    /\ Unsupported(last.psm.ps_cmd)
    /\ last.found
    /\ last.errno = "ENOTSUP"

C8_RoutingError ==
    ( /\ last.op = "cmd"
      /\ IsData(last.psm.ps_cmd)
      /\ ~last.found
      /\ last.psm.ps_cmd \notin SendTags )
    => ( /\ last.ret = -1
         /\ last.errno = "EINVAL"
         /\ last.s = -1
         /\ last.path = "sendmsg"
         /\ ~aborted )

C8_Witness ==
    /\ last.op = "cmd"
    /\ IsData(last.psm.ps_cmd)
    /\ ~last.found
    /\ last.psm.ps_cmd = PS_ND
    /\ SUN
    /\ last.errno = "EINVAL"
    /\ Len(procs) = 1

ProcOf(pid, ws, sp) == IF pid = -1 THEN sp ELSE ws[pid]

\* The descriptor of the control channel of the process pid.
ControlFd(pid, ws, sp) == IF pid = -1 THEN sp.ps_inet_fd ELSE ws[pid].psp_fd

\* C10 as stated: SIGINT changes nothing, SIGTERM shuts down the process's
\* control channel and asks for exit with success, any other signal shuts
\* it down and asks for exit with failure.
C10_ShutsControlChannel ==
    last.op = "signal" =>
        LET c == ProcOf(last.pid, workers, sup) IN
        IF last.sig = "SIGINT" THEN c.exit = "none" /\ c.shut = {}
        ELSE /\ ControlFd(last.pid, workers, sup) \in c.shut
             /\ c.exit = IF last.sig = "SIGTERM" THEN "EXIT_SUCCESS"
                         ELSE "EXIT_FAILURE"

\* C10, amended: SIGINT changes nothing; SIGTERM calls shutdown on
\* ctx->ps_inet_fd and asks for exit with success; any other signal calls
\* shutdown on ctx->ps_inet_fd and asks for exit with failure.  In the
\* network proxy ctx->ps_inet_fd is the control channel; in a worker it is
\* what the worker inherited (the parent's descriptor, or none once closed),
\* and the worker's own control channel psp_fd is not shut down.
C10_ThreeWaySignal ==
    [][ last'.op = "signal" =>
          LET c == ProcOf(last'.pid, workers, sup)
              d == ProcOf(last'.pid, workers', sup')
          IN  IF last'.sig = "SIGINT" THEN d = c
              ELSE /\ d.shut = c.shut \cup ({c.ps_inet_fd} \ {-1})
                   /\ d.exit = IF last'.sig = "SIGTERM" THEN "EXIT_SUCCESS"
                               ELSE "EXIT_FAILURE"
                   /\ last'.pid # -1 => d.psp_fd \notin d.shut
                   /\ last'.pid = -1 => d.ps_inet_fd \in d.shut ]_vars

\* A worker and the network proxy have both been signalled, one with
\* SIGTERM and one with another signal.
C10_Witness ==
    /\ last.op = "signal"
    /\ last.pid # -1
    /\ last.sig = "SIGTERM"
    /\ workers[last.pid].exit = "EXIT_SUCCESS"
    /\ sup.exit = "EXIT_FAILURE"

\* C11 as stated: no failure to apply a restriction (the rights limit of a
\* socket, cap_enter, pledge) is more than logged: the worker's start does
\* not fail, the proxy's default socket stays open and registered, and
\* ps_inet_start and ps_inet_cmd return what they return without it.
C11_SandboxNeverFatal ==
    /\ (last.op = "start" /\ last.log \in {"cap_rights_limit", "cap_enter", "pledge"})
          => (last.ret = 0 /\ workers[last.pid].registered)
    /\ \A p \in DefaultSockets :
          <<p, "cap_rights_limit">> \in proxy.cb.log
             => (proxy.cb.fd[p] # -1 /\ p \in proxy.cb.registered)
    /\ (\E x \in {"cap_enter", "pledge"} : <<"process", x>> \in proxy.cb.log)
          => (proxy.pid = 0 /\ proxy.phase # "failed")

\* C11, amended: a failure of cap_enter or of pledge is logged and nothing
\* else: the worker's start returns 0 with its socket registered, and
\* ps_inet_start returns 0 in the proxy with its sockets as they were.  A
\* failure of cap_rights_limit other than ENOSYS is logged and is fatal for
\* its socket: the worker's listen callback fails and so does its start
\* (-1); the proxy's default socket is closed and set to -1, unregistered
\* and not counted, while ps_inet_startcb does not fail for it.
C11_SandboxBestEffort ==
    /\ (last.op = "start" /\ last.log \in {"cap_enter", "pledge"})
          => ( /\ last.ret = 0
               /\ workers[last.pid].phase = "loop"
               /\ workers[last.pid].registered )
    /\ (last.op = "start" /\ last.log = "cap_rights_limit")
          => (last.ret = -1 /\ workers[last.pid].phase = "gone")
    /\ \A p \in DefaultSockets :
          <<p, "cap_rights_limit">> \in proxy.cb.log
             => ( /\ proxy.cb.fd[p] = -1
                  /\ p \notin proxy.cb.registered
                  /\ proxy.cb.ret = Cardinality(proxy.cb.registered)
                  /\ proxy.pid = 0 )
    /\ (\E x \in {"cap_enter", "pledge"} : <<"process", x>> \in proxy.cb.log)
          => ( /\ proxy.pid = 0
               /\ proxy.phase \in {"loop", "gone"}
               /\ proxy.cb.ret = Cardinality(proxy.cb.registered)
               /\ \A p \in proxy.cb.registered : proxy.cb.fd[p] = DefaultFd(p) )

\* In a capability-mode build the proxy lost one default socket to a failed
\* rights limit and then failed to enter capability mode, and a worker's
\* start has just failed on its rights limit.
C11_Witness ==
    /\ last.op = "start"
    /\ last.log = "cap_rights_limit"
    /\ \E p \in DefaultSockets : <<p, "cap_rights_limit">> \in proxy.cb.log
    /\ <<"process", "cap_enter">> \in proxy.cb.log
    /\ proxy.cb.ret >= 1

\* The default sockets whose block ps_inet_startcb entered, and those whose
\* block logged a failure.
Enabled == { p \in DefaultSockets : ps_inet_startcb_enabled(p, proxy.cb.options) }

Refused ==
    { p \in DefaultSockets :
        \E x \in {"open", "cap_rights_limit", "eloop_event_add"} :
            <<p, x>> \in proxy.cb.log }

Opened(p) ==
    \E i \in DOMAIN proxy.cb.events :
        proxy.cb.events[i] \in {<<"open", p>>, <<"open-failed", p>>}

\* C12: once ps_inet_startcb has returned, a default socket whose open or
\* registration failed is absent (-1); every other enabled socket was
\* still opened and, unless its own block failed, is registered; and the
\* callback did not report failure: it returned the count, so ps_dostart
\* returned 0.
C12_PartialDegradation ==
    (proxy.phase # "new" /\ Refused # {})
    => ( /\ \A p \in Refused : proxy.cb.fd[p] = -1 /\ p \notin proxy.cb.registered
         /\ \A q \in Enabled : Opened(q)
         /\ \A q \in Enabled \ Refused :
               proxy.cb.fd[q] = DefaultFd(q) /\ q \in proxy.cb.registered
         /\ proxy.cb.ret >= 0
         /\ proxy.cb.ret = Cardinality(Enabled \ Refused)
         /\ proxy.cb.errno # "ENXIO"
         /\ proxy.pid = 0 )

\* The first socket failed to open, the last to register, and the one
\* between them is served.
C12_Witness ==
    /\ proxy.phase = "loop"
    /\ <<"udp_rfd", "open">> \in proxy.cb.log
    /\ <<"dhcp6_rfd", "eloop_event_add">> \in proxy.cb.log
    /\ "nd_fd" \in proxy.cb.registered
    /\ last.op = "recv"

Restrictions == {"cap_enter", "pledge"}

\* In the events of a worker, and of the proxy, every open and every
\* registration comes before the restriction step.
WorkerOrdered(w) ==
    \A i, j \in DOMAIN w.events :
        (w.events[i] \in Restrictions /\ w.events[j] \notin Restrictions) => j < i

ProxyOrdered(x) ==
    \A i, j \in DOMAIN x.cb.events :
        (x.cb.events[i][1] \in Restrictions /\ x.cb.events[j][1] \notin Restrictions)
            => j < i

WorkerRestricted(w) == \E i \in DOMAIN w.events : w.events[i] \in Restrictions

ProxyRestricted(x) == \E i \in DOMAIN x.cb.events : x.cb.events[i][1] \in Restrictions

\* C13: in a build with cap_enter or pledge, a process makes that call
\* after every socket it opens and registers and before its event loop
\* runs a receive callback, and it opens or registers nothing afterwards.
C13_RestrictAfterSockets ==
    [][ /\ ProxyOrdered(proxy')
        /\ \A pid \in DOMAIN workers' : WorkerOrdered(workers'[pid])
        /\ last'.op = "recv" =>
              /\ (HAVE_CAPSICUM \/ HAVE_PLEDGE) => ProxyRestricted(proxy)
              /\ proxy'.cb.events = proxy.cb.events
        /\ last'.op = "recvin" =>
              /\ (HAVE_CAPSICUM \/ HAVE_PLEDGE) => WorkerRestricted(workers[last'.pid])
              /\ workers'[last'.pid].events = workers[last'.pid].events
        /\ proxy.phase = "loop" => proxy'.cb.events = proxy.cb.events
        /\ \A pid \in DOMAIN workers :
              workers[pid].phase = "loop" =>
                 workers'[pid].events \in {workers[pid].events, <<>>} ]_vars

\* A pledged proxy with two sockets and a pledged worker are both in their
\* loops, and the worker has just forwarded a datagram.
C13_Witness ==
    /\ HAVE_PLEDGE
    /\ last.op = "recvin"
    /\ last.path = "forward"
    /\ proxy.phase = "loop"
    /\ proxy.cb.ret >= 2
    /\ ProxyRestricted(proxy)
    /\ WorkerRestricted(workers[last.pid])

\* C14: when the read of a process's own control channel fails, the
\* callback logs it and the event loop of that process has been asked to
\* stop; and a process whose loop was asked to stop leaves it.
C14_ReadFailureStops ==
    /\ [][ (last'.op = "recvmsg" /\ last'.ret = -1) =>
              /\ ProcOf(last'.pid, workers', sup').exit # "none"
              /\ ProcOf(last'.pid, workers, sup).exit = "none"
              /\ last'.log = IF last'.pid = -1 THEN "ps_inet_recvmsg"
                             ELSE "ps_inet_recvmsgpsp" ]_vars
    /\ (proxy.phase = "loop" /\ sup.exit # "none") ~> (proxy.phase = "gone")
    /\ \A pid \in 1..MaxProcs :
          (pid \in DOMAIN workers /\ workers[pid].phase = "loop"
              /\ workers[pid].exit # "none")
          ~> (pid \in DOMAIN workers /\ workers[pid].phase = "gone")

\* The proxy has left after a failed read of its channel, and a worker's
\* read of its own channel has just failed.
C14_Witness ==
    /\ last.op = "recvmsg"
    /\ last.ret = -1
    /\ last.pid >= 1
    /\ workers[last.pid].exit = "EXIT_FAILURE"
    /\ proxy.phase = "gone"
    /\ sup.exit = "EXIT_FAILURE"

C16_RegistryFirst ==
    (last.op = "cmd" /\ IsData(last.psm.ps_cmd))
    => LET psp == ps_findprocess(procs, last.psm.ps_id) IN
       /\ last.path = "sendmsg"
       /\ psp # 0 =>
             /\ last.route = "psp"
             /\ last.sends = 1
             /\ last.s = procs[psp].psp_work_fd
       /\ (psp = 0 /\ last.psm.ps_cmd \in SendTags) =>
             /\ last.route = "default"
             /\ last.sends = 1
             /\ last.s = IF last.psm.ps_cmd = PS_BOOTP THEN ctx.udp_wfd
                         ELSE IF last.psm.ps_cmd = PS_ND THEN ctx.nd_fd
                         ELSE ctx.dhcp6_wfd
       /\ (psp = 0 /\ last.psm.ps_cmd \notin SendTags) =>
             (last.route = "none" /\ last.sends = 0)
       /\ last.sends = 1 => (last.wire = last.msg /\ last.wire \in Payloads)
       /\ last.ret = 1 => (last.sends = 1 /\ last.s # -1)

\* A datagram for a key that has a record, under a command word that has a
\* default socket, went to the record's socket; and the second datagram
\* was the one handed on.
C16_Witness ==
    /\ last.op = "cmd"
    /\ last.psm.ps_cmd = PS_BOOTP
    /\ last.psm.ps_id \in Keys
    /\ last.found
    /\ last.route = "psp"
    /\ last.wire = "datagram-b"

OpenFuncs == {"ps_inet_openbootp", "ps_inet_opennd", "ps_inet_opendhcp6"}
CloseFuncs == {"ps_inet_closebootp", "ps_inet_closend", "ps_inet_closedhcp6"}

\* The flags of a request's command word are those of its kind: START
\* alone for an open, STOP alone for a close, none for a send.
FlagsOfKind(f, ps_cmd) ==
    /\ HasStart(ps_cmd) <=> f \in OpenFuncs
    /\ HasStop(ps_cmd) <=> f \in CloseFuncs

C18_DataLeavesRegistry ==
    [][ /\ (last'.op = "cmd" /\ IsData(last'.psm.ps_cmd))
           => (procs' = procs /\ workers' = workers /\ aborted' = aborted)
        /\ (Len(procs') > Len(procs) \/ Len(workers') > Len(workers))
           => (last'.op = "cmd" /\ StartOnly(last'.psm.ps_cmd)) ]_vars

\* With both keys started, a send has just failed in sendmsg, on a default
\* socket that is open.
C18_Witness ==
    /\ last.op = "cmd"
    /\ IsData(last.psm.ps_cmd)
    /\ last.errno = "EIO"
    /\ Len(procs) = 2
    /\ Len(workers) = 2

\* C19: once ps_inet_startcb has returned, whatever was enabled and whatever
\* failed, every default socket is either -1 or open and registered; a
\* return value that is not negative is the number of sockets registered;
\* and -1 is returned, with ENXIO, only when nothing was registered and
\* nothing had failed.
C19_StartcbResult ==
    proxy.phase # "new" =>
        /\ \A p \in DefaultSockets :
              \/ proxy.cb.fd[p] = -1 /\ p \notin proxy.cb.registered
              \/ proxy.cb.fd[p] = DefaultFd(p) /\ p \in proxy.cb.registered
                    /\ p \in Enabled
        /\ proxy.cb.ret >= 0 => proxy.cb.ret = Cardinality(proxy.cb.registered)
        /\ proxy.cb.ret < 0 =>
              /\ proxy.cb.ret = -1
              /\ proxy.cb.errno = "ENXIO"
              /\ proxy.cb.registered = {}
              /\ Refused = {}
              /\ Enabled = {}
        /\ (proxy.cb.ret = 0) => (Refused = Enabled /\ Enabled # {})

\* In a capability-mode build all three default sockets were enabled and
\* each failed at another step: nothing is registered and 0 is returned.
C19_Witness ==
    /\ HAVE_CAPSICUM
    /\ proxy.phase = "loop"
    /\ proxy.cb.ret = 0
    /\ <<"udp_rfd", "open">> \in proxy.cb.log
    /\ <<"nd_fd", "cap_rights_limit">> \in proxy.cb.log
    /\ <<"dhcp6_rfd", "eloop_event_add">> \in proxy.cb.log

====
